---------------------------- MODULE Spec2Model ----------------------------
(***************************************************************************)
(* Model of src/Level 4/escape-pods.py: the multi-source / multi-sink      *)
(* reduction (compressed_paths, removed_indices), the breadth-first        *)
(* augmenting-path search (find_bunny_path) and the max-flow loop          *)
(* (maximum_bunnies_rescuable), composed by solution.                      *)
(*                                                                         *)
(* The repository is Python 2 code (Level 3 imports gcd from fractions,    *)
(* and compressed_paths indexes the value of map(...)), so map returns a   *)
(* list here.                                                              *)
(*                                                                         *)
(* Python lists are sequences; a Python index i >= 0 is position i + 1 and  *)
(* an index i < 0 counts from the end, which At and Put hide.  Room        *)
(* numbers keep their Python values 0 .. n-1.  Where the code raises, the  *)
(* operator of that code has the name of the exception as its value.       *)
(***************************************************************************)
EXTENDS Integers, Sequences, FiniteSets, TLC

(***************************************************************************)
(* Bounds of the model.                                                    *)
(***************************************************************************)
\* largest capacity drawn for a free corridor of a layout
MaxCap == 2
\* largest increase of one capacity tried by the monotonicity check
MaxDelta == 1
\* the count of augmentations (a history variable) stops counting here
MaxAugmentations == 14

(***************************************************************************)
(* Constants of the program.                                               *)
(***************************************************************************)
\* "the maximum number of bunnies (2,000,000)"
MaxBunnies == 2000000

(***************************************************************************)
(* Python list helpers.                                                    *)
(***************************************************************************)
\* list[i] raises no IndexError
InRange(list, i) == -Len(list) <= i /\ i < Len(list)

\* list[i], for an index in range
At(list, i) == IF i >= 0 THEN list[i + 1] ELSE list[Len(list) + i + 1]

\* list[i] = x, for an index in range
Put(list, i, x) ==
  IF i >= 0 THEN [list EXCEPT ![i + 1] = x]
  ELSE [list EXCEPT ![Len(list) + i + 1] = x]

\* x in list
In(x, list) == \E k \in 1..Len(list) : list[k] = x

\* range(n) as a list
RangeList(n) == [k \in 1..n |-> k - 1]

\* [0] * n
Zeros(n) == [k \in 1..n |-> 0]

RECURSIVE SumList(_)
SumList(list) ==
  IF list = << >> THEN 0 ELSE Head(list) + SumList(Tail(list))

Min(a, b) == IF a <= b THEN a ELSE b

\* [list[i] for i in range(n) if i not in indices]
Keep(list, n, indices) ==
  LET kept == SelectSeq(RangeList(n), LAMBDA i : ~In(i, indices))
  IN  [k \in 1..Len(kept) |-> At(list, kept[k])]

(***************************************************************************)
(* removed_indices(matrix, indices): the rows and columns at the given     *)
(* indices removed.                                                        *)
(***************************************************************************)
\* matrix[row][col] of line 116 is out of range for a row and a column kept
RemovedIndicesRaises(matrix, indices) ==
  \E row, col \in 0..(Len(matrix) - 1) :
    /\ ~In(row, indices)
    /\ ~In(col, indices)
    /\ ~InRange(At(matrix, row), col)

removed_indices(matrix, indices) ==
  LET length == Len(matrix)
      rows   == SelectSeq(RangeList(length), LAMBDA row : ~In(row, indices))
  IN  IF RemovedIndicesRaises(matrix, indices) THEN "IndexError"
      ELSE [r \in 1..Len(rows) |-> Keep(At(matrix, rows[r]), length, indices)]

(***************************************************************************)
(* compressed_paths(entrances, exits, path).                               *)
(***************************************************************************)
\* mutant: the sum starts from the first entrance's row, which the loop adds
\* again
StartingBunniesFirstRowTwice(entrs, pth) ==
  LET RECURSIVE RowSum(_)
      RowSum(es) ==
        IF es = << >>
        THEN IF entrs = << >> THEN Zeros(Len(pth)) ELSE At(pth, entrs[1])
        ELSE LET before == RowSum(SubSeq(es, 1, Len(es) - 1))
                 row    == At(pth, es[Len(es)])
             IN  [k \in 1..Len(pth) |-> before[k] + row[k]]
  IN  RowSum(entrs)

\* lines 140-141, entrance by entrance: path[entrance] raises IndexError for
\* an index out of range; map(add, starting_bunnies, path[entrance]) pads the
\* shorter list with None, so that add raises TypeError for a row whose
\* length is not len(path)
RECURSIVE EntrancesRaise(_, _)
EntrancesRaise(entrs, pth) ==
  IF entrs = << >> THEN "none"
  ELSE IF ~InRange(pth, Head(entrs)) THEN "IndexError"
  ELSE IF Len(At(pth, Head(entrs))) # Len(pth) THEN "TypeError"
  ELSE EntrancesRaise(Tail(entrs), pth)

\* lines 139-141 when nothing is raised
RECURSIVE SumOfRows(_, _)
SumOfRows(entrs, pth) ==
  IF entrs = << >> THEN Zeros(Len(pth))
  ELSE LET before == SumOfRows(SubSeq(entrs, 1, Len(entrs) - 1), pth)
           row    == At(pth, entrs[Len(entrs)])
       IN  [k \in 1..Len(pth) |-> before[k] + row[k]]

\* lines 139-141: the element-wise sum of the entrances' rows
StartingBunnies(entrs, pth) ==
  IF EntrancesRaise(entrs, pth) # "none" THEN EntrancesRaise(entrs, pth)
  ELSE SumOfRows(entrs, pth)

\* mutant: the starting bunnies are picked at the entrances' indices
RescuedImmediatelyAtEntrances(entrs, exts, pth) ==
  LET starting_bunnies == StartingBunnies(entrs, pth)
      picked == SelectSeq(RangeList(Len(pth)), LAMBDA index : In(index, entrs))
  IN  SumList([k \in 1..Len(picked) |-> At(starting_bunnies, picked[k])])

\* lines 144-146: the starting bunnies whose index is an exit
RescuedImmediately(entrs, exts, pth) ==
  LET starting_bunnies == StartingBunnies(entrs, pth)
      picked == SelectSeq(RangeList(Len(pth)), LAMBDA index : In(index, exts))
  IN  SumList([k \in 1..Len(picked) |-> At(starting_bunnies, picked[k])])

\* mutant: the corridors from the exits are summed (path[exit_index][index])
EscapePodsTransposed(exts, pth) ==
  [k \in 1..Len(pth) |->
     SumList([e \in 1..Len(exts) |->
        IF InRange(pth, exts[e]) /\ InRange(At(pth, exts[e]), k - 1)
        THEN At(At(pth, exts[e]), k - 1) ELSE 0])]

\* path[index][exit_index] of line 151 is out of range
EscapePodsRaises(exts, pth) ==
  \E k \in 1..Len(pth) : \E e \in 1..Len(exts) : ~InRange(pth[k], exts[e])

\* lines 149-152: for each room, the sum of its corridors to the exits
EscapePods(exts, pth) ==
  IF EscapePodsRaises(exts, pth) THEN "IndexError"
  ELSE [k \in 1..Len(pth) |->
          SumList([e \in 1..Len(exts) |-> At(pth[k], exts[e])])]

\* mutant: the combined starting row keeps the bunnies rescued immediately as
\* a corridor from the first room to the last
NewPathKeepsBypass(entrs, exts, pth) ==
  LET n        == Len(pth)
      gone     == entrs \o exts
      starting == Keep(StartingBunnies(entrs, pth), n, gone)
      pods     == Keep(EscapePods(exts, pth), n, gone)
      inner    == removed_indices(pth, gone)
      widened  == [i \in 1..Len(inner) |-> <<0>> \o inner[i] \o <<pods[i]>>]
      withTop  == << <<0>> \o starting \o <<RescuedImmediately(entrs, exts, pth)>> >>
                    \o widened
  IN  Append(withTop, Zeros(Len(withTop[1])))

\* lines 156-166: the transformed matrix
NewPath(entrs, exts, pth) ==
  LET n        == Len(pth)
      gone     == entrs \o exts
      starting == Keep(StartingBunnies(entrs, pth), n, gone)
      pods     == Keep(EscapePods(exts, pth), n, gone)
      inner    == removed_indices(pth, gone)
      widened  == [i \in 1..Len(inner) |-> <<0>> \o inner[i] \o <<pods[i]>>]
      withTop  == << <<0>> \o starting \o <<0>> >> \o widened
  IN  Append(withTop, Zeros(Len(withTop[1])))

\* the exception that leaves compressed_paths, the first in the order of the
\* lines 141, 151 and 160 (removed_indices, line 116), or "none"
Raises(entrs, exts, pth) ==
  IF EntrancesRaise(entrs, pth) # "none" THEN EntrancesRaise(entrs, pth)
  ELSE IF EscapePodsRaises(exts, pth) THEN "IndexError"
  ELSE IF RemovedIndicesRaises(pth, entrs \o exts) THEN "IndexError"
  ELSE "none"

\* path[entrance] (line 141), path[index][exit_index] (line 151) or
\* matrix[row][col] (line 116) is out of range: IndexError leaves
\* compressed_paths
IndexOutOfRange(entrs, exts, pth) == Raises(entrs, exts, pth) = "IndexError"

compressed_paths(entrs, exts, pth) ==
  IF Raises(entrs, exts, pth) # "none" THEN Raises(entrs, exts, pth)
  ELSE [bunnies_rescued_immediately |-> RescuedImmediately(entrs, exts, pth),
        new_path |-> NewPath(entrs, exts, pth)]

(***************************************************************************)
(* find_bunny_path(corridors, bunny_traffic).                              *)
(***************************************************************************)
\* lines 94-95
Residual(corr, traffic, u, v) == At(At(corr, u), v) - At(At(traffic, u), v)

\* mutant: a corridor with no capacity left is not skipped (< instead of <=)
SkippedOnlyBelowZero(corr, traffic, current_path, new_room) ==
  \/ In(new_room, current_path)
  \/ Residual(corr, traffic, current_path[Len(current_path)], new_room) < 0

\* line 90 / line 96: the room is skipped
Skipped(corr, traffic, current_path, new_room) ==
  \/ In(new_room, current_path)
  \/ Residual(corr, traffic, current_path[Len(current_path)], new_room) <= 0

\* mutant: the rooms are tried from the highest index down
ExtensionsDescending(corr, traffic, current_path) ==
  LET rooms == SelectSeq([k \in 1..Len(corr) |-> Len(corr) - k],
                         LAMBDA new_room :
                           ~Skipped(corr, traffic, current_path, new_room))
  IN  [k \in 1..Len(rooms) |-> Append(current_path, rooms[k])]

\* lines 89-100: the paths appended to the queue for one dequeued path
Extensions(corr, traffic, current_path) ==
  LET rooms == SelectSeq(RangeList(Len(corr)),
                         LAMBDA new_room :
                           ~Skipped(corr, traffic, current_path, new_room))
  IN  [k \in 1..Len(rooms) |-> Append(current_path, rooms[k])]

NoPath == << >>

\* mutant: pop() takes the path enqueued last
PopLast(queue) ==
  [current_path |-> queue[Len(queue)], rest |-> SubSeq(queue, 1, Len(queue) - 1)]

\* line 81: pop(0) takes the path enqueued first
Pop(queue) == [current_path |-> Head(queue), rest |-> Tail(queue)]

\* lines 80-100, None is NoPath
RECURSIVE Search(_, _, _)
Search(corr, traffic, queue) ==
  IF Len(queue) = 0 THEN NoPath
  ELSE LET current_path == Pop(queue).current_path
           current_room == current_path[Len(current_path)]
       IN  IF current_room = Len(corr) - 1 THEN current_path
           ELSE Search(corr, traffic,
                       Pop(queue).rest \o Extensions(corr, traffic, current_path))

find_bunny_path(corr, traffic) == Search(corr, traffic, << <<0>> >>)

(***************************************************************************)
(* maximum_bunnies_rescuable(corridors).                                   *)
(***************************************************************************)
\* mutant: one bunny is sent along every path found
BottleneckOneBunny(corr, traffic, p) == 1

\* mutant: the traffic alone is compared, the corridor sizes are forgotten
RECURSIVE BottleneckOfTraffic(_, _, _)
BottleneckOfTraffic(corr, traffic, p) ==
  LET capacity == At(At(traffic, p[Len(p) - 1]), p[Len(p)])
  IN  IF Len(p) = 2 THEN capacity
      ELSE Min(BottleneckOfTraffic(corr, traffic, SubSeq(p, 1, Len(p) - 1)),
               capacity)

\* mutant: the first corridor of the path is left out of the minimum
RECURSIVE BottleneckSkipsFirst(_, _, _)
BottleneckSkipsFirst(corr, traffic, p) ==
  LET capacity == Residual(corr, traffic, p[Len(p) - 1], p[Len(p)])
  IN  IF Len(p) <= 3 THEN capacity
      ELSE Min(BottleneckSkipsFirst(corr, traffic, SubSeq(p, 1, Len(p) - 1)),
               capacity)

\* lines 35-44: the minimum residual capacity along the path
RECURSIVE Bottleneck(_, _, _)
Bottleneck(corr, traffic, p) ==
  LET capacity == Residual(corr, traffic, p[Len(p) - 1], p[Len(p)])
  IN  IF Len(p) = 2 THEN capacity
      ELSE Min(Bottleneck(corr, traffic, SubSeq(p, 1, Len(p) - 1)), capacity)

\* mutant: the bottleneck is assigned (=) instead of added (+=)
AddForwardAssigns(traffic, previous_room, room, amount) ==
  Put(traffic, previous_room, Put(At(traffic, previous_room), room, amount))

\* line 50
AddForward(traffic, previous_room, room, amount) ==
  Put(traffic, previous_room,
      Put(At(traffic, previous_room), room,
          At(At(traffic, previous_room), room) + amount))

\* mutant: the bottleneck is added in the reverse direction too
SubtractReverseAdds(traffic, previous_room, room, amount) ==
  Put(traffic, room,
      Put(At(traffic, room), previous_room,
          At(At(traffic, room), previous_room) + amount))

\* mutant: the reverse direction is never updated
SubtractReverseDropped(traffic, previous_room, room, amount) == traffic

\* line 51
SubtractReverse(traffic, previous_room, room, amount) ==
  Put(traffic, room,
      Put(At(traffic, room), previous_room,
          At(At(traffic, room), previous_room) - amount))

\* lines 48-52, from the edge that ends at Python index room_index
RECURSIVE Augmented(_, _, _, _)
Augmented(traffic, p, amount, room_index) ==
  IF room_index >= Len(p) THEN traffic
  ELSE Augmented(
         SubtractReverse(
           AddForward(traffic, At(p, room_index - 1), At(p, room_index), amount),
           At(p, room_index - 1), At(p, room_index), amount),
         p, amount, room_index + 1)

\* line 56
NumEscaped(traffic) ==
  SumList([k \in 1..Len(traffic) |-> At(traffic[k], Len(traffic) - 1)])

\* lines 29-52
RECURSIVE FlowLoop(_, _)
FlowLoop(corr, traffic) ==
  LET path_with_capacity == find_bunny_path(corr, traffic)
  IN  IF path_with_capacity = NoPath THEN traffic
      ELSE FlowLoop(corr,
                    Augmented(traffic, path_with_capacity,
                              Bottleneck(corr, traffic, path_with_capacity), 1))

ZeroMatrix(n) == [r \in 1..n |-> Zeros(n)]

maximum_bunnies_rescuable(corr) ==
  NumEscaped(FlowLoop(corr, ZeroMatrix(Len(corr))))

\* lines 171-173
solution(entrs, exts, pth) ==
  LET c == compressed_paths(entrs, exts, pth)
  IN  IF Raises(entrs, exts, pth) # "none" THEN Raises(entrs, exts, pth)
      ELSE c.bunnies_rescued_immediately + maximum_bunnies_rescuable(c.new_path)

(***************************************************************************)
(* The inputs of solution.  A layout fixes the number of rooms, the        *)
(* entrances, the exits, the corridors of capacity 1 (fixed) and the       *)
(* corridors that take every capacity of lo .. MaxCap (free); all other    *)
(* corridors are 0.  The three fixed inputs are the documented scenarios.  *)
(***************************************************************************)
Layouts ==
  { \* one entrance, one exit, two rooms between them joined both ways
    [n |-> 4, entrances |-> <<0>>, exits |-> <<3>>, lo |-> 0, fixed |-> << >>,
     free |-> << <<0, 1>>, <<0, 2>>, <<1, 2>>, <<2, 1>>, <<1, 3>>, <<2, 3>> >>],
    \* two entrances given out of order, surviving rooms 2 and 4
    [n |-> 5, entrances |-> <<3, 0>>, exits |-> <<1>>, lo |-> 0, fixed |-> << >>,
     free |-> << <<3, 1>>, <<0, 2>>, <<3, 2>>, <<2, 4>>, <<4, 1>>, <<2, 1>> >>],
    \* two exits, one surviving room, corridors the reduction drops
    [n |-> 4, entrances |-> <<1>>, exits |-> <<0, 2>>, lo |-> 0, fixed |-> << >>,
     free |-> << <<1, 3>>, <<3, 0>>, <<3, 2>>, <<0, 3>>, <<3, 1>>, <<3, 3>> >>],
    \* every room is an entrance or an exit
    [n |-> 3, entrances |-> <<2, 0>>, exits |-> <<1>>, lo |-> 0, fixed |-> << >>,
     free |-> << <<0, 1>>, <<2, 1>>, <<0, 2>>, <<1, 0>>, <<1, 1>> >>],
    \* six rooms: when 0-1-2-5 is augmented first, the traffic on corridor
    \* 1 -> 2 has to be undone by the path 0-3-2-1-4-5
    [n |-> 6, entrances |-> <<0>>, exits |-> <<5>>, lo |-> 0,
     fixed |-> << <<3, 2>>, <<4, 5>> >>,
     free |-> << <<0, 1>>, <<1, 2>>, <<2, 5>>, <<0, 3>>, <<1, 4>> >>],
    \* room 1 is an entrance and an exit, no room survives
    [n |-> 2, entrances |-> <<0, 1>>, exits |-> <<1>>, lo |-> 0, fixed |-> << >>,
     free |-> << <<0, 1>>, <<1, 1>>, <<1, 0>> >>],
    \* room 1 is an entrance and an exit, room 2 survives
    [n |-> 3, entrances |-> <<0, 1>>, exits |-> <<1>>, lo |-> 0, fixed |-> << >>,
     free |-> << <<0, 1>>, <<0, 2>>, <<2, 1>>, <<1, 1>> >>],
    \* no entrance
    [n |-> 3, entrances |-> << >>, exits |-> <<2>>, lo |-> 0, fixed |-> << >>,
     free |-> << <<0, 1>>, <<1, 2>>, <<0, 2>> >>],
    \* no exit
    [n |-> 3, entrances |-> <<0>>, exits |-> << >>, lo |-> 0, fixed |-> << >>,
     free |-> << <<0, 1>>, <<1, 2>>, <<0, 2>> >>],
    \* negative capacities
    [n |-> 3, entrances |-> <<0>>, exits |-> <<2>>, lo |-> -1, fixed |-> << >>,
     free |-> << <<0, 1>>, <<1, 2>>, <<0, 2>> >>],
    \* an exit index outside the matrix
    [n |-> 2, entrances |-> <<0>>, exits |-> <<2>>, lo |-> 0, fixed |-> << >>,
     free |-> << <<0, 1>> >>],
    \* an entrance index outside the matrix
    [n |-> 2, entrances |-> <<2>>, exits |-> <<1>>, lo |-> 0, fixed |-> << >>,
     free |-> << <<0, 1>> >>] }

\* the matrix of a layout whose k-th free corridor has capacity caps[k]
MatrixOf(layout, caps) ==
  [r \in 1..layout.n |->
     [c \in 1..layout.n |->
        IF \E k \in 1..Len(layout.free) : layout.free[k] = <<r - 1, c - 1>>
        THEN caps[CHOOSE k \in 1..Len(layout.free) :
                    layout.free[k] = <<r - 1, c - 1>>]
        ELSE IF In(<<r - 1, c - 1>>, layout.fixed) THEN 1 ELSE 0]]

Scenario1 ==
  [entrances |-> <<0>>, exits |-> <<3>>,
   path |-> << <<0, 7, 0, 0>>, <<0, 0, 6, 0>>, <<0, 0, 0, 8>>, <<9, 0, 0, 0>> >>]

Scenario2 ==
  [entrances |-> <<0, 1>>, exits |-> <<4, 5>>,
   path |-> << <<0, 0, 4, 6, 0, 0>>, <<0, 0, 5, 2, 0, 0>>, <<0, 0, 0, 0, 4, 4>>,
               <<0, 0, 0, 0, 6, 6>>, <<0, 0, 0, 0, 0, 0>>, <<0, 0, 0, 0, 0, 0>> >>]

Scenario3 ==
  [entrances |-> <<0>>, exits |-> <<1>>, path |-> << <<0, 5>>, <<0, 0>> >>]

\* two corridors as large as the largest number of bunnies (docstring, line 12)
BigCorridors ==
  [entrances |-> <<0>>, exits |-> <<2>>,
   path |-> << <<0, MaxBunnies, 0>>, <<0, 0, MaxBunnies>>, <<0, 0, 0>> >>]

\* calls that no line of the code rules out: rows that are not as long as
\* the matrix, indices below zero or beyond the matrix, the empty matrix
UncheckedInputs ==
  { [entrances |-> <<0>>, exits |-> <<1>>, path |-> << <<0, 1, 2>>, <<0, 0, 0>> >>],
    [entrances |-> <<1>>, exits |-> <<0>>, path |-> << <<0, 0>>, <<7, 0, 9>> >>],
    [entrances |-> <<0, 2>>, exits |-> <<1>>, path |-> << <<0, 1>>, <<0>> >>],
    [entrances |-> <<0>>, exits |-> <<1>>, path |-> << <<0, 1>>, <<0>> >>],
    [entrances |-> << >>, exits |-> <<1>>,
     path |-> << <<0, 1>>, <<0, 0>>, <<0, 0>> >>],
    [entrances |-> << >>, exits |-> <<2>>, path |-> << <<0, 1, 5>>, <<0, 0, 0>> >>],
    [entrances |-> << >>, exits |-> <<0>>, path |-> << >>],
    [entrances |-> <<-1>>, exits |-> <<1>>, path |-> << <<0, 3>>, <<0, 0>> >>],
    [entrances |-> <<-2>>, exits |-> <<1>>, path |-> << <<0, 3>>, <<0, 0>> >>],
    [entrances |-> <<-3>>, exits |-> <<1>>, path |-> << <<0, 3>>, <<0, 0>> >>],
    [entrances |-> <<0>>, exits |-> <<-3>>, path |-> << <<0, 3>>, <<0, 0>> >>],
    [entrances |-> <<0>>, exits |-> <<-1>>, path |-> << <<0, 3>>, <<0, 0>> >>] }

InputsOf(layout) ==
  { [entrances |-> layout.entrances, exits |-> layout.exits,
     path |-> MatrixOf(layout, caps)] :
      caps \in [1..Len(layout.free) -> layout.lo..MaxCap] }

Inputs ==
  {Scenario1, Scenario2, Scenario3, BigCorridors} \cup UncheckedInputs
    \cup UNION { InputsOf(layout) : layout \in Layouts }

(***************************************************************************)
(* The run of solution(entrances, exits, path) as a state machine.         *)
(*   pc = "solution"    solution was called, nothing has run               *)
(*        "loop"        line 29, about to call find_bunny_path             *)
(*        "search"      inside find_bunny_path's while loop (line 80)      *)
(*        "bottleneck"  a path was returned (line 34)                      *)
(*        "forward"     line 50 is next for the edge ending at room_index  *)
(*        "reverse"     line 51 is next for the edge ending at room_index  *)
(*        "sum"         the loop was left by break (line 56)               *)
(*        "done"        solution returned result                           *)
(*        "raised"      an exception left solution                         *)
(***************************************************************************)
VARIABLES
  entrances, exits, path,        \* the arguments of solution
  pc,
  bunnies_rescued_immediately,   \* first value of compressed_paths
  corridors,                     \* second value: the matrix handed to the engine
  bunny_traffic,                 \* line 27
  pathes_to_search,              \* line 78
  path_with_capacity,            \* line 31
  bottleneck,                    \* bottleneck_traffic_through_path
  room_index,                    \* Python index of the room the second loop is at
  result,                        \* the value solution returns
  raised,                        \* the exception that left solution, or "none"
  augmentations,                 \* history: completed passes of the while
                                 \* loop's body, up to MaxAugmentations
  traffic_before                 \* history: bunny_traffic as it was when the
                                 \* path being augmented was returned

vars ==
  <<entrances, exits, path, pc, bunnies_rescued_immediately, corridors,
    bunny_traffic, pathes_to_search, path_with_capacity, bottleneck,
    room_index, result, raised, augmentations, traffic_before>>

Init ==
  /\ \E input \in Inputs :
       /\ entrances = input.entrances
       /\ exits = input.exits
       /\ path = input.path
  /\ pc = "solution"
  /\ bunnies_rescued_immediately = 0
  /\ corridors = << >>
  /\ bunny_traffic = << >>
  /\ pathes_to_search = << >>
  /\ path_with_capacity = NoPath
  /\ bottleneck = 0
  /\ room_index = 0
  /\ result = 0
  /\ raised = "none"
  /\ augmentations = 0
  /\ traffic_before = << >>

\* line 172 when compressed_paths raises: IndexError or TypeError leaves
\* solution
CompressRaises ==
  /\ pc = "solution"
  /\ Raises(entrances, exits, path) # "none"
  /\ pc' = "raised"
  /\ raised' = Raises(entrances, exits, path)
  /\ UNCHANGED <<entrances, exits, path, bunnies_rescued_immediately,
                 corridors, bunny_traffic, pathes_to_search,
                 path_with_capacity, bottleneck, room_index, result,
                 augmentations, traffic_before>>

\* line 172, then lines 23-27 of maximum_bunnies_rescuable
Compress ==
  /\ pc = "solution"
  /\ Raises(entrances, exits, path) = "none"
  /\ LET c == compressed_paths(entrances, exits, path)
     IN  /\ bunnies_rescued_immediately' = c.bunnies_rescued_immediately
         /\ corridors' = c.new_path
         /\ bunny_traffic' = ZeroMatrix(Len(c.new_path))
  /\ pc' = "loop"
  /\ UNCHANGED <<entrances, exits, path, pathes_to_search, path_with_capacity,
                 bottleneck, room_index, result, raised, augmentations, traffic_before>>

\* line 31 calls find_bunny_path: line 78
StartSearch ==
  /\ pc = "loop"
  /\ pathes_to_search' = << <<0>> >>
  /\ pc' = "search"
  /\ UNCHANGED <<entrances, exits, path, bunnies_rescued_immediately,
                 corridors, bunny_traffic, path_with_capacity, bottleneck,
                 room_index, result, raised, augmentations, traffic_before>>

\* lines 81-86: the dequeued path ends in the escape pods room and is returned
SearchFound ==
  /\ pc = "search"
  /\ Len(pathes_to_search) > 0
  /\ LET current_path == Pop(pathes_to_search).current_path
     IN  /\ current_path[Len(current_path)] = Len(corridors) - 1
         /\ path_with_capacity' = current_path
  /\ pathes_to_search' = Pop(pathes_to_search).rest
  /\ pc' = "bottleneck"
  /\ UNCHANGED <<entrances, exits, path, bunnies_rescued_immediately,
                 corridors, bunny_traffic, bottleneck, room_index, result,
                 raised, augmentations, traffic_before>>

\* lines 81-100: the dequeued path is extended by every room not skipped
SearchExpand ==
  /\ pc = "search"
  /\ Len(pathes_to_search) > 0
  /\ LET current_path == Pop(pathes_to_search).current_path
     IN  /\ current_path[Len(current_path)] # Len(corridors) - 1
         /\ pathes_to_search' =
              Pop(pathes_to_search).rest \o
                Extensions(corridors, bunny_traffic, current_path)
  /\ UNCHANGED <<entrances, exits, path, pc, bunnies_rescued_immediately,
                 corridors, bunny_traffic, path_with_capacity, bottleneck,
                 room_index, result, raised, augmentations, traffic_before>>

\* line 80 with an empty queue: find_bunny_path returns None, line 32 breaks
SearchExhausted ==
  /\ pc = "search"
  /\ Len(pathes_to_search) = 0
  /\ path_with_capacity' = NoPath
  /\ pc' = "sum"
  /\ UNCHANGED <<entrances, exits, path, bunnies_rescued_immediately,
                 corridors, bunny_traffic, pathes_to_search, bottleneck,
                 room_index, result, raised, augmentations, traffic_before>>

\* lines 34-44, and the second loop's pass for room_index 0 (line 52)
ComputeBottleneck ==
  /\ pc = "bottleneck"
  /\ bottleneck' = Bottleneck(corridors, bunny_traffic, path_with_capacity)
  /\ room_index' = 1
  /\ traffic_before' = bunny_traffic
  /\ pc' = "forward"
  /\ UNCHANGED <<entrances, exits, path, bunnies_rescued_immediately,
                 corridors, bunny_traffic, pathes_to_search,
                 path_with_capacity, result, raised, augmentations>>

\* line 50
AugmentForward ==
  /\ pc = "forward"
  /\ bunny_traffic' =
       AddForward(bunny_traffic, At(path_with_capacity, room_index - 1),
                  At(path_with_capacity, room_index), bottleneck)
  /\ pc' = "reverse"
  /\ UNCHANGED <<entrances, exits, path, bunnies_rescued_immediately,
                 corridors, pathes_to_search, path_with_capacity, bottleneck,
                 room_index, result, raised, augmentations, traffic_before>>

\* lines 51-52; after the last room the while loop starts over (line 29)
AugmentReverse ==
  /\ pc = "reverse"
  /\ bunny_traffic' =
       SubtractReverse(bunny_traffic, At(path_with_capacity, room_index - 1),
                       At(path_with_capacity, room_index), bottleneck)
  /\ IF room_index + 1 < Len(path_with_capacity)
     THEN /\ room_index' = room_index + 1
          /\ pc' = "forward"
          /\ UNCHANGED augmentations
     ELSE /\ room_index' = room_index
          /\ pc' = "loop"
          /\ augmentations' = Min(augmentations + 1, MaxAugmentations)
  /\ UNCHANGED <<entrances, exits, path, bunnies_rescued_immediately,
                 corridors, pathes_to_search, path_with_capacity, bottleneck,
                 result, raised, traffic_before>>

\* lines 56-57 and the return of line 173
Finish ==
  /\ pc = "sum"
  /\ result' = bunnies_rescued_immediately + NumEscaped(bunny_traffic)
  /\ pc' = "done"
  /\ UNCHANGED <<entrances, exits, path, bunnies_rescued_immediately,
                 corridors, bunny_traffic, pathes_to_search,
                 path_with_capacity, bottleneck, room_index, raised,
                 augmentations, traffic_before>>

Next ==
  \/ CompressRaises
  \/ Compress
  \/ StartSearch
  \/ SearchFound
  \/ SearchExpand
  \/ SearchExhausted
  \/ ComputeBottleneck
  \/ AugmentForward
  \/ AugmentReverse
  \/ Finish

Spec == Init /\ [][Next]_vars

\* the interpreter runs the single thread until solution returns or raises
FairSpec == Spec /\ WF_vars(Next)

(***************************************************************************)
(* Vocabulary of the properties.  Nothing below uses the operators that    *)
(* model the code, except where a property is about two runs.              *)
(***************************************************************************)
Rooms(matrix) == 0..(Len(matrix) - 1)

Elements(list) == { list[k] : k \in 1..Len(list) }

Square(matrix) == \A r \in 1..Len(matrix) : Len(matrix[r]) = Len(matrix)

NonNegative(matrix) ==
  \A r \in 1..Len(matrix) : \A c \in 1..Len(matrix[r]) : matrix[r][c] >= 0

Disjoint(listA, listB) == Elements(listA) \cap Elements(listB) = {}

\* the preconditions of the entry point
ValidInput ==
  /\ Len(path) >= 2
  /\ Square(path)
  /\ NonNegative(path)
  /\ Len(entrances) > 0
  /\ Len(exits) > 0
  /\ Elements(entrances) \subseteq Rooms(path)
  /\ Elements(exits) \subseteq Rooms(path)
  /\ Disjoint(entrances, exits)

\* the matrix is N x N and the entrances and the exits are rooms 0 .. N-1
RoomLists ==
  /\ Square(path)
  /\ Elements(entrances) \subseteq Rooms(path)
  /\ Elements(exits) \subseteq Rooms(path)

\* compressed_paths has returned
Compressed == pc \notin {"solution", "raised"}

\* sum of matrix[a][b] over a in setA and b in setB
SumBetween(matrix, setA, setB) ==
  SumList([r \in 1..Len(matrix) |->
     SumList([c \in 1..Len(matrix) |->
        IF (r - 1) \in setA /\ (c - 1) \in setB THEN matrix[r][c] ELSE 0])])

\* the least capacity of a cut that keeps every source and no sink
MinCut(matrix, sources, sinks) ==
  LET sides == { A \in SUBSET Rooms(matrix) : sources \subseteq A /\ A \cap sinks = {} }
      capacities == { SumBetween(matrix, A, Rooms(matrix) \ A) : A \in sides }
  IN  CHOOSE m \in capacities : \A other \in capacities : m <= other

\* the rooms that are neither entrance nor exit, and the i-th of them in
\* ascending order (i from 1)
Surviving == Rooms(path) \ (Elements(entrances) \cup Elements(exits))

SurvivingRoom(i) ==
  CHOOSE room \in Surviving : Cardinality({ other \in Surviving : other < room }) = i - 1

IsScenario(scenario) ==
  entrances = scenario.entrances /\ exits = scenario.exits /\ path = scenario.path

(***************************************************************************)
(* C1: for every valid input, solution returns the minimum cut capacity    *)
(* separating the entrances from the exits; equivalently the bypass flow   *)
(* plus the maximum flow (= minimum cut between room 0 and the last room)  *)
(* of the reduced graph.  Scenario 1 gives 6 and Scenario 2 gives 16.      *)
(***************************************************************************)
C1_ResultIsMinCut ==
  (pc = "done" /\ ValidInput) =>
    /\ result = MinCut(path, Elements(entrances), Elements(exits))
    /\ result = SumBetween(path, Elements(entrances), Elements(exits))
                  + MinCut(corridors, {0}, {Len(corridors) - 1})
    /\ IsScenario(Scenario1) => result = 6
    /\ IsScenario(Scenario2) => result = 16

\* a valid six-room run whose second path 0-3-2-1-4-5 undid traffic on 1 -> 2
C1_Witness ==
  /\ pc = "done"
  /\ ValidInput
  /\ Len(path) = 6
  /\ augmentations = 2
  /\ path_with_capacity = NoPath
  /\ At(At(bunny_traffic, 1), 2) = 0
  /\ At(At(bunny_traffic, 3), 2) = 1
  /\ result = 2

(***************************************************************************)
(* C2: the first value of compressed_paths is the sum of path[s][t] over   *)
(* every entrance s and every exit t, for every square non-negative matrix *)
(* and disjoint sets of its rooms as entrances and exits.                  *)
(***************************************************************************)
C2_BypassFlow ==
  (Compressed /\ RoomLists /\ NonNegative(path) /\ Disjoint(entrances, exits)) =>
    bunnies_rescued_immediately =
      SumBetween(path, Elements(entrances), Elements(exits))

\* two entrances with a corridor each to the exit, and both are counted
C2_Witness ==
  /\ Compressed
  /\ ValidInput
  /\ entrances = <<3, 0>>
  /\ At(At(path, 3), 1) = 2
  /\ At(At(path, 0), 1) = 0
  /\ At(At(path, 0), 2) = 1
  /\ bunnies_rescued_immediately = 2

(***************************************************************************)
(* C3: for disjoint entrances S and exits T, rooms of the N x N matrix,    *)
(* the second value of                                                     *)
(* compressed_paths is a square matrix R of size N - |S| - |T| + 2 with    *)
(* the surviving rooms n_1 < ... < n_k at indices 1..k: R[0][i] is the sum *)
(* over s of path[s][n_i], R[i][last] the sum over t of path[n_i][t],      *)
(* R[i][j] = path[n_i][n_j], and the last row is all zeros.                *)
(***************************************************************************)
C3_ReducedMatrix ==
  (Compressed /\ RoomLists /\ Disjoint(entrances, exits)) =>
    LET size == Len(path) - Len(entrances) - Len(exits) + 2
        k    == Cardinality(Surviving)
    IN  /\ Len(corridors) = size
        /\ Square(corridors)
        /\ k = size - 2
        /\ \A i \in 1..k :
             /\ At(At(corridors, 0), i) =
                  SumBetween(path, Elements(entrances), {SurvivingRoom(i)})
             /\ At(At(corridors, i), size - 1) =
                  SumBetween(path, {SurvivingRoom(i)}, Elements(exits))
             /\ \A j \in 1..k :
                  At(At(corridors, i), j) =
                    At(At(path, SurvivingRoom(i)), SurvivingRoom(j))
        /\ \A c \in 0..(size - 1) : At(At(corridors, size - 1), c) = 0

\* rooms 2 and 4 survive out of five; both entrances feed room 2, and the
\* corridors 2 -> 4, 4 -> 1 and 2 -> 1 all differ
C3_Witness ==
  /\ Compressed
  /\ ValidInput
  /\ Len(path) = 5
  /\ Surviving = {2, 4}
  /\ corridors = << <<0, 3, 0, 0>>, <<0, 0, 2, 1>>, <<0, 0, 0, 2>>, <<0, 0, 0, 0>> >>
  /\ At(At(path, 0), 2) = 1
  /\ At(At(path, 3), 2) = 2

(***************************************************************************)
(* C4: for every input that violates a precondition, solution ends in an   *)
(* InvalidInput error raised before the reduction or any flow computation  *)
(* starts, and never returns an integer.                                   *)
(***************************************************************************)
C4_InvalidInputRejected ==
  ~ValidInput =>
    /\ pc \in {"solution", "raised"}
    /\ pc = "raised" => raised = "InvalidInput"

\* the matrix handed to maximum_bunnies_rescuable is square, non-negative, N >= 2
EngineInputOk ==
  Len(corridors) >= 2 /\ Square(corridors) /\ NonNegative(corridors)

(***************************************************************************)
(* C5: for every square non-negative matrix with N >= 2 rooms,             *)
(* maximum_bunnies_rescuable terminates: every call of find_bunny_path     *)
(* returns, and after finitely many augmentations find_bunny_path returns  *)
(* None and the loop exits with an integer result.                         *)
(***************************************************************************)
C5_Terminates ==
  /\ (pc = "search" /\ EngineInputOk) ~> (pc \in {"bottleneck", "sum"})
  /\ (pc = "loop" /\ EngineInputOk) ~>
       (pc = "done" /\ path_with_capacity = NoPath /\ result \in Int)

\* the loop was left after three augmentations on a non-negative matrix
C5_Witness ==
  /\ pc = "sum"
  /\ EngineInputOk
  /\ augmentations = 3
  /\ pathes_to_search = << >>

\* the traffic leaving room u, and the traffic entering it
PositiveOut(traffic, u) ==
  SumList([c \in 1..Len(traffic) |->
     IF At(traffic, u)[c] > 0 THEN At(traffic, u)[c] ELSE 0])

PositiveIn(traffic, u) ==
  SumList([r \in 1..Len(traffic) |->
     IF At(traffic[r], u) > 0 THEN At(traffic[r], u) ELSE 0])

(***************************************************************************)
(* C6: after every completed augmentation and when the loop is left, every *)
(* room u other than room 0 and the last room has as much traffic coming   *)
(* in as going out: the entries of row u of bunny_traffic sum to 0, and    *)
(* the positive entries of row u sum to the positive entries of column u.  *)
(***************************************************************************)
C6_FlowConservation ==
  (pc \in {"loop", "sum", "done"}) =>
    \A u \in 1..(Len(bunny_traffic) - 2) :
      /\ SumList(At(bunny_traffic, u)) = 0
      /\ PositiveOut(bunny_traffic, u) = PositiveIn(bunny_traffic, u)

\* two bunnies pass through room 1 of the reduced graph, one arriving from
\* each of two rooms
C6_Witness ==
  /\ pc = "done"
  /\ augmentations >= 2
  /\ PositiveIn(bunny_traffic, 1) = 2
  /\ \E u, v \in Rooms(bunny_traffic) :
       /\ u # v
       /\ At(At(bunny_traffic, u), 1) = 1
       /\ At(At(bunny_traffic, v), 1) = 1

\* the matrix with entry [u][v] larger by delta
Raised(matrix, u, v, delta) ==
  Put(matrix, u, Put(At(matrix, u), v, At(At(matrix, u), v) + delta))

(***************************************************************************)
(* C7: for two valid inputs with the same entrances and exits whose        *)
(* matrices differ in one entry only, the result for the matrix with the   *)
(* larger entry is at least the result for the other.                      *)
(***************************************************************************)
C7_Monotone ==
  (pc = "done" /\ ValidInput) =>
    \A u, v \in Rooms(path) : \A delta \in 1..MaxDelta :
      solution(entrances, exits, Raised(path, u, v, delta)) >= result

\* a valid run of result 1 for which raising one corridor raises the result
C7_Witness ==
  /\ pc = "done"
  /\ ValidInput
  /\ result = 1
  /\ augmentations = 1
  /\ \E u, v \in Rooms(path) :
       solution(entrances, exits, Raised(path, u, v, 1)) = 2

(***************************************************************************)
(* C8: when every room of the N x N matrix is an entrance or an exit and   *)
(* nothing else is (N = |S| + |T|), compressed_paths yields                *)
(* the 2x2 all-zero matrix, the first find_bunny_path returns None, no     *)
(* augmentation is made, maximum_bunnies_rescuable returns 0 and solution  *)
(* returns the bypass flow (5 for Scenario 3).                             *)
(***************************************************************************)
C8_BypassOnly ==
  (Compressed /\ RoomLists /\ Surviving = {}) =>
    /\ corridors = << <<0, 0>>, <<0, 0>> >>
    /\ pc # "bottleneck"
    /\ augmentations = 0
    /\ pc = "done" =>
         /\ path_with_capacity = NoPath
         /\ result - bunnies_rescued_immediately = 0
         /\ result = SumBetween(path, Elements(entrances), Elements(exits))
         /\ IsScenario(Scenario3) => result = 5

\* three rooms, two entrances and an exit, three bunnies go straight through
C8_Witness ==
  /\ pc = "done"
  /\ ValidInput
  /\ Surviving = {}
  /\ Len(path) = 3
  /\ result = 3

(***************************************************************************)
(* C9: for every valid input the result is non-negative and at most the    *)
(* sum of path[s][v] over every entrance s and every room v.               *)
(***************************************************************************)
C9_ResultBounds ==
  (pc = "done" /\ ValidInput) =>
    /\ result >= 0
    /\ result <= SumBetween(path, Elements(entrances), Rooms(path))

\* the bound is attained by a run that needed augmentations
C9_Witness ==
  /\ pc = "done"
  /\ ValidInput
  /\ augmentations >= 2
  /\ result > 0
  /\ result = SumBetween(path, Elements(entrances), Rooms(path))

(***************************************************************************)
(* C10: in every state of maximum_bunnies_rescuable on a non-negative      *)
(* matrix, also between the two updates of one corridor, the residual      *)
(* capacity corridors[u][v] - bunny_traffic[u][v] is >= 0 for all u, v.    *)
(***************************************************************************)
C10_ResidualNonNegative ==
  (Compressed /\ NonNegative(corridors)) =>
    \A u, v \in Rooms(corridors) :
      At(At(corridors, u), v) - At(At(bunny_traffic, u), v) >= 0

\* between line 50 and line 51 of an augmentation that undoes traffic: the
\* corridor 2 -> 1 has size 0 and traffic -1, and line 50 has just run for it
C10_Witness ==
  /\ pc = "reverse"
  /\ NonNegative(corridors)
  /\ augmentations >= 1
  /\ At(path_with_capacity, room_index - 1) = 2
  /\ At(path_with_capacity, room_index) = 1
  /\ At(At(corridors, 2), 1) = 0
  /\ At(At(bunny_traffic, 2), 1) = 0
  /\ At(At(bunny_traffic, 1), 2) = 1

\* traffic[u][v] = -traffic[v][u] for all rooms
SkewSymmetric(traffic) ==
  \A u, v \in Rooms(traffic) : At(At(traffic, u), v) = -At(At(traffic, v), u)

(***************************************************************************)
(* C11: bunny_traffic starts as the all-zero N x N matrix and, after every *)
(* completed augmentation, bunny_traffic[u][v] = -bunny_traffic[v][u] for  *)
(* all rooms u, v; in particular every diagonal entry stays 0.             *)
(***************************************************************************)
C11_SkewSymmetry ==
  /\ (pc = "loop" /\ augmentations = 0) =>
       bunny_traffic = [r \in 1..Len(corridors) |-> [c \in 1..Len(corridors) |-> 0]]
  /\ (pc \in {"loop", "search", "bottleneck", "sum", "done"}) =>
       /\ Len(bunny_traffic) = Len(corridors)
       /\ Square(bunny_traffic)
       /\ SkewSymmetric(bunny_traffic)
       /\ \A u \in Rooms(bunny_traffic) : At(At(bunny_traffic, u), u) = 0

\* an augmentation of two bunnies through a room that has a corridor to itself
C11_Witness ==
  /\ pc = "loop"
  /\ augmentations = 1
  /\ At(At(corridors, 1), 1) = 2
  /\ At(At(bunny_traffic, 0), 1) = 2
  /\ At(At(bunny_traffic, 1), 0) = -2
  /\ At(At(bunny_traffic, 1), 1) = 0

\* the corridor u -> v has capacity left in the current traffic
HasCapacity(u, v) == At(At(corridors, u), v) - At(At(bunny_traffic, u), v) > 0

\* the rooms reachable from the rooms of `from` along corridors with capacity
RECURSIVE ReachableFrom(_)
ReachableFrom(from) ==
  LET further == from \cup { v \in Rooms(corridors) : \E u \in from : HasCapacity(u, v) }
  IN  IF further = from THEN from ELSE ReachableFrom(further)

AugmentingPathExists == (Len(corridors) - 1) \in ReachableFrom({0})

\* p goes from room 0 to the last room, visits no room twice and every
\* corridor of it has capacity left
IsAugmentingPath(p) ==
  /\ Len(p) >= 1
  /\ p[1] = 0
  /\ p[Len(p)] = Len(corridors) - 1
  /\ \A i, j \in 1..Len(p) : i # j => p[i] # p[j]
  /\ \A i \in 1..(Len(p) - 1) : p[i] # Len(corridors) - 1
  /\ \A i \in 1..(Len(p) - 1) : HasCapacity(p[i], p[i + 1])

(***************************************************************************)
(* C12: find_bunny_path returns None if and only if no path from room 0 to *)
(* the last room exists along corridors with strictly positive residual    *)
(* capacity; otherwise it returns a list that starts with 0, ends with     *)
(* N-1, holds no room twice, holds N-1 only as its last element and has    *)
(* positive residual capacity on every pair of consecutive rooms.          *)
(***************************************************************************)
C12_PathOrNone ==
  /\ pc = "sum" => (path_with_capacity = NoPath /\ ~AugmentingPathExists)
  /\ pc = "bottleneck" =>
       /\ path_with_capacity # NoPath
       /\ AugmentingPathExists
       /\ IsAugmentingPath(path_with_capacity)

\* None is returned after two augmentations although three other rooms can
\* still be reached from room 0
C12_Witness ==
  /\ pc = "sum"
  /\ augmentations = 2
  /\ path_with_capacity = NoPath
  /\ Cardinality(ReachableFrom({0})) = 4
  /\ ~AugmentingPathExists

\* the least number of corridors with capacity left that lead from a room of
\* `frontier` to the last room, counted from hops; -1 when there is no way
RECURSIVE HopsToLast(_, _, _)
HopsToLast(frontier, seen, hops) ==
  IF (Len(corridors) - 1) \in frontier THEN hops
  ELSE LET further == { v \in Rooms(corridors) \ seen :
                          \E u \in frontier : HasCapacity(u, v) }
       IN  IF further = {} THEN -1
           ELSE HopsToLast(further, seen \cup further, hops + 1)

ShortestHops == HopsToLast({0}, {0}, 0)

(***************************************************************************)
(* C13: whenever find_bunny_path returns a path, it has the minimum number *)
(* of edges among all paths from room 0 to the last room whose every edge  *)
(* has strictly positive residual capacity.                                *)
(***************************************************************************)
C13_ShortestPath ==
  pc = "bottleneck" => Len(path_with_capacity) - 1 = ShortestHops

\* the five-corridor path that undoes traffic on 1 -> 2 is returned: no
\* shorter path has capacity left
C13_Witness ==
  /\ pc = "bottleneck"
  /\ path_with_capacity = <<0, 3, 2, 1, 4, 5>>
  /\ ShortestHops = 5
  /\ augmentations = 1

\* every list of hops + 1 distinct rooms that starts at room 0 and follows
\* corridors with capacity left
RECURSIVE SimplePaths(_)
SimplePaths(hops) ==
  IF hops = 0 THEN { <<0>> }
  ELSE UNION { { Append(p, v) :
                   v \in { w \in Rooms(corridors) :
                             /\ \A i \in 1..Len(p) : p[i] # w
                             /\ HasCapacity(p[Len(p)], w) } } :
               p \in SimplePaths(hops - 1) }

\* the augmenting paths with the fewest corridors
ShortestAugmentingPaths ==
  IF ShortestHops < 0 THEN {}
  ELSE { p \in SimplePaths(ShortestHops) : IsAugmentingPath(p) }

\* p is q or comes before q in lexicographic order (lists of equal length)
LexLeq(p, q) ==
  \/ p = q
  \/ \E i \in 1..Len(p) : p[i] < q[i] /\ \A j \in 1..(i - 1) : p[j] = q[j]

(***************************************************************************)
(* C14: among all augmenting paths with the minimum number of edges,       *)
(* find_bunny_path returns the one whose room sequence is                  *)
(* lexicographically smallest.                                             *)
(***************************************************************************)
C14_TieBreaking ==
  pc = "bottleneck" =>
    /\ path_with_capacity \in ShortestAugmentingPaths
    /\ \A q \in ShortestAugmentingPaths : LexLeq(path_with_capacity, q)

\* three shortest paths 0-1-2-5, 0-1-4-5 and 0-3-2-5 compete, and 0-1-2-5 is
\* returned
C14_Witness ==
  /\ pc = "bottleneck"
  /\ ShortestAugmentingPaths = { <<0, 1, 2, 5>>, <<0, 1, 4, 5>>, <<0, 3, 2, 5>> }
  /\ path_with_capacity = <<0, 1, 2, 5>>

\* the total traffic into the last room: the sum over n of traffic[n][N-1]
FlowIntoLast(traffic) ==
  SumBetween(traffic, Rooms(traffic), {Len(traffic) - 1})

\* the least residual capacity, in the traffic given, of the corridors of p
LeastResidual(p, traffic) ==
  LET residuals == { At(At(corridors, p[i]), p[i + 1]) - At(At(traffic, p[i]), p[i + 1]) :
                       i \in 1..(Len(p) - 1) }
  IN  CHOOSE least \in residuals : \A other \in residuals : least <= other

\* an augmentation has just been completed
AugmentationCompleted == pc = "loop" /\ augmentations >= 1

(***************************************************************************)
(* C15: every augmentation increases the total flow into the last room,    *)
(* the sum over n of bunny_traffic[n][N-1], by exactly the path's          *)
(* bottleneck, an integer >= 1; the total flow never decreases.            *)
(***************************************************************************)
C15_MonotonicProgress ==
  /\ [](AugmentationCompleted =>
          /\ bottleneck = LeastResidual(path_with_capacity, traffic_before)
          /\ bottleneck \in Int
          /\ bottleneck >= 1
          /\ FlowIntoLast(bunny_traffic) = FlowIntoLast(traffic_before) + bottleneck)
  /\ [][FlowIntoLast(bunny_traffic') >= FlowIntoLast(bunny_traffic)]_vars

\* a later augmentation raises the total flow from 1 to 3
C15_Witness ==
  /\ AugmentationCompleted
  /\ augmentations >= 2
  /\ bottleneck = 2
  /\ FlowIntoLast(traffic_before) = 1
  /\ FlowIntoLast(bunny_traffic) = 3

\* the residual capacity, in the traffic given, of the i-th corridor of p
ResidualOfEdge(p, i, traffic) ==
  At(At(corridors, p[i]), p[i + 1]) - At(At(traffic, p[i]), p[i + 1])

(***************************************************************************)
(* C16: the amount applied by an augmentation along a path P equals the    *)
(* minimum of corridors[u][v] - bunny_traffic[u][v] over the consecutive   *)
(* edges of P, measured before the augmentation; right after it, every     *)
(* edge of P that attained that minimum (at least one) has residual        *)
(* capacity exactly 0.                                                     *)
(***************************************************************************)
C16_BottleneckSaturated ==
  AugmentationCompleted =>
    LET p     == path_with_capacity
        least == LeastResidual(p, traffic_before)
    IN  /\ \A i \in 1..(Len(p) - 1) :
             /\ At(At(bunny_traffic, p[i]), p[i + 1]) =
                  At(At(traffic_before, p[i]), p[i + 1]) + least
             /\ At(At(bunny_traffic, p[i + 1]), p[i]) =
                  At(At(traffic_before, p[i + 1]), p[i]) - least
        /\ \E i \in 1..(Len(p) - 1) : ResidualOfEdge(p, i, traffic_before) = least
        /\ \A i \in 1..(Len(p) - 1) :
             ResidualOfEdge(p, i, traffic_before) = least =>
               ResidualOfEdge(p, i, bunny_traffic) = 0

\* a path of three corridors: the first had residual 2 and keeps 1, the other
\* two had residual 1 and are full
C16_Witness ==
  /\ AugmentationCompleted
  /\ Len(path_with_capacity) = 4
  /\ ResidualOfEdge(path_with_capacity, 1, traffic_before) = 2
  /\ ResidualOfEdge(path_with_capacity, 1, bunny_traffic) = 1
  /\ ResidualOfEdge(path_with_capacity, 2, bunny_traffic) = 0
  /\ ResidualOfEdge(path_with_capacity, 3, bunny_traffic) = 0

\* the ordered pairs of distinct rooms joined by a corridor in either direction
JoinedPairs ==
  { pair \in Rooms(corridors) \X Rooms(corridors) :
      /\ pair[1] # pair[2]
      /\ \/ At(At(corridors, pair[1]), pair[2]) > 0
         \/ At(At(corridors, pair[2]), pair[1]) > 0 }

(***************************************************************************)
(* C17: for every non-negative matrix with N rooms the number of           *)
(* augmentations of one run of maximum_bunnies_rescuable is at most N * E, *)
(* E being the number of ordered pairs (u, v), u # v, with                 *)
(* corridors[u][v] > 0 or corridors[v][u] > 0, however large the           *)
(* capacities are.  (The count is exact while below MaxAugmentations.)     *)
(***************************************************************************)
C17_AugmentationBound ==
  (Compressed /\ NonNegative(corridors)) =>
    /\ augmentations < MaxAugmentations
    /\ augmentations <= Len(corridors) * Cardinality(JoinedPairs)

\* two corridors of 2,000,000 bunnies are filled by one augmentation
C17_Witness ==
  /\ pc = "done"
  /\ NonNegative(corridors)
  /\ result = MaxBunnies
  /\ augmentations = 1
  /\ Len(corridors) * Cardinality(JoinedPairs) = 12

=============================================================================
